---- MODULE Spec2Model ----
(***************************************************************************)
(* Avatar generation job pipeline of tryfitted.                            *)
(*                                                                         *)
(* Part 1: the job store behind apps/api/src/routes/avatars.ts: the        *)
(* avatar_jobs and avatars tables, the avatar_build queue, and the two     *)
(* handlers POST /v1/avatar/jobs and PATCH /v1/avatar/jobs/:id/status,      *)
(* each modelled await by await (handlers of different requests            *)
(* interleave at their awaits).                                            *)
(*                                                                         *)
(* Part 2: the avatar worker that consumes avatar_build and reports        *)
(* through the PATCH route.  Part 3: the worker container's entrypoint     *)
(* script, which provisions the assets and then starts the worker.         *)
(* Part 4: the fit engine of packages/shared, a pure function.  Part 5:    *)
(* the web viewer's AvatarScene and its load() and destroy().              *)
(***************************************************************************)
EXTENDS Integers, Sequences, FiniteSets, TLC

(* ------------------------------ bounds -------------------------------- *)
MaxJobs == 1
MaxPosts == 1
MaxPatches == 3
MaxClock == 2
MaxInFlight == 2
MaxCallbacks == 4
MaxDeliveries == 2
MaxBoots == 2
MaxLoads == 3

(* --------------------------- program values --------------------------- *)
\* a nullable TIMESTAMP column that holds NULL
NoDate == 0
\* z.number().min(100).max(250)
MinHeightCm == 100
MaxHeightCm == 250
\* process.env.S3_BUCKET
S3_BUCKET == "tryfitted"
\* the seeded users table
users == {"default-user"}

Undefined == "undefined"
\* an error text "<kind>: <message>", or none
ErrorText(kind, message) == [kind |-> kind, message |-> message]
NoError == ErrorText(Undefined, Undefined)
\* (mutation: the warnings are left out of the document)
QualityReportNoWarnings(confidence, warnings) ==
    [confidence |-> confidence, warnings |-> {}]

\* a quality report document
QualityReport(confidence, warnings) ==
    [confidence |-> confidence, warnings |-> warnings]
AvatarJobStatus == {"queued", "processing", "completed", "failed"}

JobIds == 1..MaxJobs

\* A URL string: parsed by new URL() into path segments, or not parseable.
Url(valid, path) == [valid |-> valid, path |-> path]
GlbUrlOf(jobId) == Url(TRUE, <<S3_BUCKET, "avatars", ToString(jobId), "avatar.glb">>)

\* function inferS3KeyFromPublicUrl(urlStr)
inferS3KeyFromPublicUrl(url) ==
    IF ~url.valid THEN url.path
    ELSE IF Len(url.path) > 1 /\ url.path[1] = S3_BUCKET
         THEN Tail(url.path)
         ELSE url.path

(* ------------------------------ inputs -------------------------------- *)
FrontPhotoInputs == {Undefined, "not-a-url", "https://s3/front.jpg"}
SidePhotoInputs == {Undefined, "https://s3/side.jpg"}
HeightInputs == {MinHeightCm - 1, MinHeightCm, MaxHeightCm, MaxHeightCm + 1}
IsUrl(s) == s \notin {Undefined, "not-a-url"}

PostBodies ==
    [frontPhotoUrl : FrontPhotoInputs, sidePhotoUrl : SidePhotoInputs,
     heightCm : HeightInputs]

\* (mutation: the schema has no upper limit on heightCm)
CreateAvatarJobRequestSchemaNoMax(body) ==
    /\ IsUrl(body.frontPhotoUrl)
    /\ body.sidePhotoUrl = Undefined \/ IsUrl(body.sidePhotoUrl)
    /\ body.heightCm >= MinHeightCm

\* CreateAvatarJobRequestSchema.safeParse(req.body).success
CreateAvatarJobRequestSchema(body) ==
    /\ IsUrl(body.frontPhotoUrl)
    /\ body.sidePhotoUrl = Undefined \/ IsUrl(body.sidePhotoUrl)
    /\ body.heightCm >= MinHeightCm
    /\ body.heightCm <= MaxHeightCm

NoResult == [none |-> TRUE]
ResultInputs ==
    { [userId |-> "default-user", glbUrl |-> GlbUrlOf(1),
       measurements |-> "real", qualityReport |-> QualityReport("high", {})],
      [userId |-> "default-user", glbUrl |-> Url(FALSE, <<"avatar.glb">>),
       measurements |-> "placeholder",
       qualityReport |-> QualityReport("medium", {"placeholder output"})] }

StatusInputs == AvatarJobStatus \cup {Undefined}

\* the bodies an arbitrary caller sends: any status or none, with a result
\* or without one (a result is tried with completed and with two others)
PatchBodies ==
    { b \in [status : StatusInputs, error : {NoError},
             result : ResultInputs \cup {NoResult}] :
        b.result # NoResult => b.status \in {"completed", "failed", Undefined} }

(* ------------------------------- state -------------------------------- *)
VARIABLES
    jobs,       \* avatar_jobs: id -> row
    avatars,    \* avatars: a set of rows
    queue,      \* avatar_build: the messages published, in order
    now,        \* the wall clock read by new Date()
    posts,      \* POST /v1/avatar/jobs handlers in flight
    patches,    \* PATCH /v1/avatar/jobs/:id/status handlers in flight
    nPosts,     \* requests received so far
    nPatches,
    cfg,        \* the worker's environment: its strictness toggles
    assets,     \* what the local asset root and PATH hold
    worker,     \* the Job Consumer and the Orchestrator run it drives
    active,     \* the queue message the worker holds (0: none)
    acked,      \* the queue messages acknowledged
    artifacts,  \* the object store: the objects under avatars/
    attempts,   \* per queue message, how often it was delivered
    boot,       \* the worker container's entrypoint script
    fs,         \* the worker container's files: asset root and copies
    faults,     \* the error a stage's execution raises in this run, if any
    fit,        \* a computeFit call: its request, then its response
    scene       \* the web viewer's AvatarScene

workerVars ==
    <<cfg, assets, worker, active, acked, artifacts, attempts, boot, fs,
      faults, fit, scene>>
vars == <<jobs, avatars, queue, now, posts, patches, nPosts, nPatches, workerVars>>

InFlight == Cardinality(posts) + Cardinality(patches)

HasAvatar(jobId) == \E a \in avatars : a.jobId = jobId

InitStore ==
    /\ jobs = <<>>         \* ids are handed out 1, 2, ...: row i is job i
    /\ avatars = {}
    /\ queue = <<>>
    /\ now = 1
    /\ posts = {}
    /\ patches = {}
    /\ nPosts = 0
    /\ nPatches = 0

(* ----------------------- POST /v1/avatar/jobs ------------------------- *)
\* A handler in flight: pc is the await it is suspended at ("reply": the
\* response is computed and being sent).
NoJob == [id |-> 0, status |-> Undefined]

\* parseBody + the handler's entry: 400 on a body the schema rejects
PostReceive(body) ==
    /\ nPosts < MaxPosts
    /\ InFlight < MaxInFlight
    /\ nPosts' = nPosts + 1
    /\ posts' = posts \cup
         {[rid |-> nPosts + 1, body |-> body, job |-> NoJob,
           pc |-> IF CreateAvatarJobRequestSchema(body) THEN "create" ELSE "reply",
           code |-> IF CreateAvatarJobRequestSchema(body) THEN 0 ELSE 400,
           response |-> NoJob]}
    /\ UNCHANGED <<jobs, avatars, queue, now, patches, nPatches, workerVars>>

\* the row db.avatarJob.create inserts
NewJobRow(userId, heightCm) ==
    [userId |-> userId, status |-> "queued", heightCm |-> heightCm,
     error |-> NoError, startedAt |-> NoDate, completedAt |-> NoDate]

\* await db.avatarJob.create(...)
PostCreateJob(p) ==
    /\ p.pc = "create"
    /\ Len(jobs) < MaxJobs
    /\ LET id == Len(jobs) + 1
           row == NewJobRow("default-user", p.body.heightCm)
       IN /\ jobs' = Append(jobs, row)
          /\ posts' = (posts \ {p}) \cup
               {[p EXCEPT !.pc = "enqueue", !.job = [id |-> id, status |-> row.status]]}
    /\ UNCHANGED <<avatars, queue, now, patches, nPosts, nPatches, workerVars>>

\* db.avatarJob.create rejects (the database is unreachable): the handler throws
PostCreateJobFail(p) ==
    /\ p.pc = "create"
    /\ posts' = (posts \ {p}) \cup {[p EXCEPT !.pc = "reply", !.code = 500]}
    /\ UNCHANGED <<jobs, avatars, queue, now, patches, nPosts, nPatches, workerVars>>

\* (mutation: the side photo is left out of the payload)
AvatarBuildMessageNoSide(p) ==
    [jobId |-> p.job.id, frontPhotoUrl |-> p.body.frontPhotoUrl,
     sidePhotoUrl |-> Undefined, heightCm |-> p.body.heightCm]

\* the payload of avatarQueue.add("avatar_build", ...)
AvatarBuildMessage(p) ==
    [jobId |-> p.job.id, frontPhotoUrl |-> p.body.frontPhotoUrl,
     sidePhotoUrl |-> p.body.sidePhotoUrl, heightCm |-> p.body.heightCm]

\* CreateAvatarJobResponseSchema.parse({jobId: job.id, status: job.status})
CreateAvatarJobResponse(p) == [id |-> p.job.id, status |-> p.job.status]

\* await avatarQueue.add(...), then the response is built from the created row
PostEnqueue(p) ==
    /\ p.pc = "enqueue"
    /\ queue' = Append(queue, AvatarBuildMessage(p))
    /\ posts' = (posts \ {p}) \cup
         {[p EXCEPT !.pc = "reply", !.code = 200,
                    !.response = CreateAvatarJobResponse(p)]}
    /\ UNCHANGED <<jobs, avatars, now, patches, nPosts, nPatches, workerVars>>

\* avatarQueue.add rejects (Redis is unreachable): the handler throws, the
\* created row stays
PostEnqueueFail(p) ==
    /\ p.pc = "enqueue"
    /\ posts' = (posts \ {p}) \cup {[p EXCEPT !.pc = "reply", !.code = 500]}
    /\ UNCHANGED <<jobs, avatars, queue, now, patches, nPosts, nPatches, workerVars>>

\* reply.send: the response leaves, the handler is gone
PostReply(p) ==
    /\ p.pc = "reply"
    /\ posts' = posts \ {p}
    /\ UNCHANGED <<jobs, avatars, queue, now, patches, nPosts, nPatches, workerVars>>

(* ----------------- PATCH /v1/avatar/jobs/:id/status ------------------- *)
\* (mutation: the status test is dropped)
ShouldCreateAvatarAnyStatus(body) ==
    body.result # NoResult

\* if (body.status === "completed" && body.result)
ShouldCreateAvatar(body) ==
    body.status = "completed" /\ body.result # NoResult

\* (mutation: the quality report is not stored with the Avatar)
NewAvatarRowNoReport(avatarId, id, result) ==
    [id |-> avatarId, userId |-> result.userId, jobId |-> id,
     glbS3Key |-> inferS3KeyFromPublicUrl(result.glbUrl),
     glbUrl |-> result.glbUrl, measurements |-> result.measurements,
     qualityReport |-> QualityReport(Undefined, {})]

\* the row db.avatar.create inserts
NewAvatarRow(avatarId, id, result) ==
    [id |-> avatarId, userId |-> result.userId, jobId |-> id,
     glbS3Key |-> inferS3KeyFromPublicUrl(result.glbUrl),
     glbUrl |-> result.glbUrl, measurements |-> result.measurements,
     qualityReport |-> result.qualityReport]

\* The store already holds what this callback writes: its status, and for
\* a completed callback with a result the Avatar row made from that result.
Repeats(id, body) ==
    /\ id \in DOMAIN jobs
    /\ body.status # Undefined
    /\ jobs[id].status = body.status
    /\ ShouldCreateAvatar(body) =>
          \E a \in avatars : a = NewAvatarRow(a.id, id, body.result)

\* the handler's entry, up to its first await
PatchEnter(id, body, max) ==
    /\ nPatches < max
    /\ InFlight < MaxInFlight
    /\ nPatches' = nPatches + 1
    /\ patches' = patches \cup
         {[rid |-> nPatches + 1, id |-> id, body |-> body, avatarId |-> 0,
           pc |-> IF ShouldCreateAvatar(body) THEN "create" ELSE "update",
           code |-> 0, thrown |-> "none", repeats |-> Repeats(id, body)]}
    /\ UNCHANGED <<jobs, avatars, queue, now, posts, nPosts>>

\* a callback from any caller (the route checks no credentials)
PatchReceive(id, body) ==
    /\ PatchEnter(id, body, MaxPatches)
    /\ UNCHANGED workerVars

\* (mutation: the index is not unique)
avatars_jobId_idx(row) == TRUE

\* CREATE UNIQUE INDEX "avatars_jobId_key" ON "avatars"("jobId")
avatars_jobId_key(row) == ~HasAvatar(row.jobId)

\* avatars_jobId_fkey and avatars_userId_fkey
avatars_fkeys(row) == row.jobId \in DOMAIN jobs /\ row.userId \in users

\* await db.avatar.create(...); avatarId = avatar.id
PatchCreateAvatar(r) ==
    /\ r.pc = "create"
    /\ LET row == NewAvatarRow(Cardinality(avatars) + 1, r.id, r.body.result)
       IN /\ avatars_jobId_key(row)
          /\ avatars_fkeys(row)
          /\ avatars' = avatars \cup {row}
          /\ patches' = (patches \ {r}) \cup
               {[r EXCEPT !.pc = "update", !.avatarId = row.id]}
    /\ UNCHANGED <<jobs, queue, now, posts, nPosts, nPatches, workerVars>>

\* (mutation: the throw is caught and the handler carries on)
AfterAvatarCreateCaught(r, why) == [r EXCEPT !.pc = "update"]

\* where the handler goes when db.avatar.create throws: nothing catches it,
\* so the request ends with a 500 and the update below never runs
AfterAvatarCreateThrows(r, why) ==
    [r EXCEPT !.pc = "reply", !.code = 500, !.thrown = why]

\* what db.avatar.create can throw on this row: the unique index (P2002),
\* a foreign key (P2003), or the database is unreachable
AvatarCreateErrors(row) ==
    {"unreachable"}
    \cup (IF avatars_jobId_key(row) THEN {} ELSE {"P2002"})
    \cup (IF avatars_fkeys(row) THEN {} ELSE {"P2003"})

\* db.avatar.create rejects
PatchCreateAvatarFail(r) ==
    /\ r.pc = "create"
    /\ \E why \in AvatarCreateErrors(NewAvatarRow(0, r.id, r.body.result)) :
         patches' = (patches \ {r}) \cup {AfterAvatarCreateThrows(r, why)}
    /\ UNCHANGED <<jobs, avatars, queue, now, posts, nPosts, nPatches, workerVars>>

\* (mutation: the reported status is not written to the row)
UpdateStatusKept(row, body) == row.status

\* data.status: body.status (undefined leaves the column alone)
UpdateStatus(row, body) ==
    IF body.status = Undefined THEN row.status ELSE body.status

\* (mutation: the error text is not stored)
UpdateErrorLost(row, body) == row.error

\* data.error: body.error
UpdateError(row, body) ==
    IF body.error = NoError THEN row.error ELSE body.error

\* data.startedAt: body.status === "processing" ? new Date() : undefined
UpdateStartedAt(row, body, date) ==
    IF body.status = "processing" THEN date ELSE row.startedAt

\* data.completedAt: completed or failed ? new Date() : undefined
UpdateCompletedAt(row, body, date) ==
    IF body.status = "completed" \/ body.status = "failed"
    THEN date ELSE row.completedAt

\* the row after db.avatarJob.update({ where: { id }, data })
UpdatedJobRow(row, body, date) ==
    [row EXCEPT !.status = UpdateStatus(row, body),
                !.error = UpdateError(row, body),
                !.startedAt = UpdateStartedAt(row, body, date),
                !.completedAt = UpdateCompletedAt(row, body, date)]

\* await db.avatarJob.update(...); reply.send({ success: true, jobId })
PatchUpdateJob(r) ==
    /\ r.pc = "update"
    /\ r.id \in DOMAIN jobs
    /\ \E date \in now..MaxClock :      \* new Date(): the clock never runs back
         /\ now' = date
         /\ jobs' = [jobs EXCEPT ![r.id] = UpdatedJobRow(@, r.body, date)]
    /\ patches' = (patches \ {r}) \cup {[r EXCEPT !.pc = "reply", !.code = 200]}
    /\ UNCHANGED <<avatars, queue, posts, nPosts, nPatches, workerVars>>

\* db.avatarJob.update rejects: no row has this id (P2025), or the database
\* is unreachable
PatchUpdateJobFail(r) ==
    /\ r.pc = "update"
    /\ \E why \in {"unreachable"} \cup (IF r.id \in DOMAIN jobs THEN {} ELSE {"P2025"}) :
         patches' = (patches \ {r}) \cup
           {[r EXCEPT !.pc = "reply", !.code = 500, !.thrown = why]}
    /\ UNCHANGED <<jobs, avatars, queue, now, posts, nPosts, nPatches, workerVars>>

\* the response leaves, the handler is gone
PatchLeave(r) ==
    /\ r.pc = "reply"
    /\ patches' = patches \ {r}
    /\ UNCHANGED <<jobs, avatars, queue, now, posts, nPosts, nPatches>>

\* a response nobody in the model waits for
PatchReply(r) ==
    /\ r.rid # worker.awaiting
    /\ PatchLeave(r)
    /\ UNCHANGED workerVars


(* ------------- the avatar worker (services/avatar-worker) ------------- *)
\* The Job Consumer takes one avatar_build message at a time and drives the
\* Orchestrator through the fixed stage sequence; the Orchestrator reports
\* "processing" before the first stage and one terminal status after the
\* last, each through PATCH /v1/avatar/jobs/:id/status above.
\* (mutation: the tint is estimated before the mesh is optimized)
StagesTintBeforeOptimize ==
    <<"fetch", "estimate", "refine", "measure", "export", "tint", "optimize",
      "upload">>

\* (mutation: the artifacts are uploaded before the mesh is optimized)
StagesUploadEarly ==
    <<"fetch", "estimate", "refine", "measure", "export", "upload", "optimize",
      "tint">>

Stages ==
    <<"fetch", "estimate", "refine", "measure", "export", "optimize", "tint",
      "upload">>

\* REQUIRE_REAL_AVATAR, SAM3DBODY_ENABLED, REQUIRE_GLTFPACK
Cfgs ==
    [requireRealAvatar : BOOLEAN, refineEnabled : BOOLEAN,
     requireGltfpack : BOOLEAN]
\* body-model weights, refinement-model weights, the gltfpack binary, the
\* measurement model data (tried missing with the body weights and
\* gltfpack in place)
AssetSets ==
    {a \in [body : BOOLEAN, refine : BOOLEAN, gltfpack : BOOLEAN,
            measure : BOOLEAN] : ~a.measure => a.body /\ a.gltfpack}

Idle ==
    [pc |-> "idle", phase |-> "none", stage |-> 0, awaiting |-> 0,
     mesh |-> "none", warnings |-> {}, degradations |-> 0,
     outcome |-> [status |-> Undefined, error |-> NoError],
     results |-> <<>>, reports |-> <<>>, debug |-> "none"]

\* avatars/<jobId>/<name>
ArtifactKey(jobId, name) == <<"avatars", ToString(jobId), name>>
PutObject(store, key, content) ==
    {o \in store : o.key # key} \cup {[key |-> key, content |-> content]}
PutObjects(store, jobId, names, content) ==
    {o \in store : \A n \in names : o.key # ArtifactKey(jobId, n)}
    \cup {[key |-> ArtifactKey(jobId, n), content |-> content] : n \in names}

\* (mutation: the appearance document is not uploaded)
FinalArtifactsNoAppearance ==
    {"avatar.glb", "measurements.json", "quality_report.json"}

FinalArtifacts ==
    {"avatar.glb", "measurements.json", "quality_report.json", "appearance.json"}
MaskArtifacts == {"mask_front.png", "mask_side.png", "silhouette_targets.json"}

\* Confidence derivation: high, medium after one degradation, low after
\* more or when measurement extraction could not run
Confidence(degradations, measured) ==
    IF ~measured THEN "low"
    ELSE IF degradations = 0 THEN "high"
    ELSE IF degradations = 1 THEN "medium" ELSE "low"

\* measurement extraction ran, or has not been reached
Measured(w) ==
    \A k \in DOMAIN w.results :
        w.results[k].stage = "measure" => w.results[k].kind = "ok"

\* (mutation: optimization without gltfpack always fails the job)
StageResultOptimizeStrict(stage, c, a) ==
    IF stage = "optimize" /\ ~a.gltfpack
    THEN [kind |-> "fail", warning |-> "", degrades |-> FALSE]
    ELSE IF stage = "estimate" /\ ~a.body
    THEN IF c.requireRealAvatar
         THEN [kind |-> "fail", warning |-> "", degrades |-> FALSE]
         ELSE [kind |-> "placeholder", warning |-> "placeholder output",
               degrades |-> TRUE]
    ELSE IF stage = "refine" /\ ~(c.refineEnabled /\ a.refine)
    THEN [kind |-> "skip", warning |-> "", degrades |-> FALSE]
    ELSE [kind |-> "ok", warning |-> "", degrades |-> FALSE]

\* What a stage does under the fallback policy: "ok", "placeholder" (strict
\* stage, permissive mode), "skip" (with a warning or without), or "fail".
StageResult(stage, c, a) ==
    CASE stage = "estimate" ->
            IF a.body THEN [kind |-> "ok", warning |-> "", degrades |-> FALSE]
            ELSE IF c.requireRealAvatar
                 THEN [kind |-> "fail", warning |-> "", degrades |-> FALSE]
                 ELSE [kind |-> "placeholder", warning |-> "placeholder output",
                       degrades |-> TRUE]
      [] stage = "refine" ->
            IF ~c.refineEnabled
            THEN [kind |-> "skip", warning |-> "", degrades |-> FALSE]
            ELSE IF a.refine
                 THEN [kind |-> "ok", warning |-> "", degrades |-> FALSE]
                 ELSE [kind |-> "skip", warning |-> "silhouette refinement skipped",
                       degrades |-> TRUE]
      [] stage = "measure" ->
            IF a.measure THEN [kind |-> "ok", warning |-> "", degrades |-> FALSE]
            ELSE [kind |-> "skip", warning |-> "measurements unavailable",
                  degrades |-> FALSE]
      [] stage = "optimize" ->
            IF a.gltfpack THEN [kind |-> "ok", warning |-> "", degrades |-> FALSE]
            ELSE IF c.requireGltfpack
                 THEN [kind |-> "fail", warning |-> "", degrades |-> FALSE]
                 ELSE [kind |-> "skip", warning |-> "optimization skipped",
                       degrades |-> FALSE]
      [] OTHER -> [kind |-> "ok", warning |-> "", degrades |-> FALSE]

\* the error of a stage that fails for want of its assets
DependencyMissing(stage) == ErrorText("DependencyMissing", stage)

\* The errors a stage's execute can raise once its assets are there: a
\* malformed photo or an out-of-range height, an internal error of the
\* model call, a budget that ran out, an upload the store kept refusing.
StageErrors ==
    [fetch |-> {"InvalidInput"}, estimate |-> {"InvalidInput", "ComputeFailure"},
     refine |-> {"ComputeFailure"}, measure |-> {},
     export |-> {"ComputeFailure", "Timeout"}, optimize |-> {"ComputeFailure"},
     tint |-> {"ComputeFailure"}, upload |-> {"StoreFailure"}]

\* no stage raises; debugStore: the store takes the debug upload of a
\* failed run
NoFaults == [stage |-> "none", kind |-> "none", debugStore |-> TRUE]
FaultSets ==
    {NoFaults} \cup
    {f \in [stage : DOMAIN StageErrors,
            kind : {"InvalidInput", "ComputeFailure", "Timeout", "StoreFailure"},
            debugStore : BOOLEAN] : f.kind \in StageErrors[f.stage]}

\* (mutation: an InvalidInput falls back like any other error)
OnErrorInputCovered(stage, c, kind) ==
    IF stage = "estimate" /\ ~c.requireRealAvatar
    THEN [kind |-> "placeholder", warning |-> "placeholder output",
          degrades |-> TRUE, error |-> kind]
    ELSE [kind |-> "fail", warning |-> "", degrades |-> FALSE, error |-> kind]

\* The fallback policy for an error raised by a stage that was attempted:
\* InvalidInput and Timeout are always fatal; a strict stage falls back to
\* its placeholder unless configured strict; an optional or best-effort
\* stage is skipped with a warning, optimization under its own toggle;
\* every other error is fatal.
OnError(stage, c, kind) ==
    LET fatal == [kind |-> "fail", warning |-> "", degrades |-> FALSE,
                  error |-> kind]
    IN IF kind \in {"InvalidInput", "Timeout"} THEN fatal
       ELSE CASE stage = "estimate" ->
                    IF c.requireRealAvatar THEN fatal
                    ELSE [kind |-> "placeholder", warning |-> "placeholder output",
                          degrades |-> TRUE, error |-> kind]
              [] stage = "refine" ->
                    [kind |-> "skip", warning |-> "silhouette refinement skipped",
                     degrades |-> TRUE, error |-> kind]
              [] stage = "optimize" ->
                    IF c.requireGltfpack THEN fatal
                    ELSE [kind |-> "skip", warning |-> "optimization skipped",
                          degrades |-> FALSE, error |-> kind]
              [] stage = "tint" ->
                    [kind |-> "skip", warning |-> "tint skipped",
                     degrades |-> FALSE, error |-> kind]
              [] OTHER -> fatal

\* One stage under the policy: the availability check first, then, when
\* the stage is attempted, the error its execution raises, if any.
Execute(stage, c, a, f) ==
    LET checked == StageResult(stage, c, a)
    IN IF checked.kind = "ok" /\ f.stage = stage
       THEN OnError(stage, c, f.kind)
       ELSE [kind |-> checked.kind, warning |-> checked.warning,
             degrades |-> checked.degrades, error |-> "DependencyMissing"]

\* the body of the Orchestrator's status callback
CallbackBody(w, jobId) ==
    IF w.phase = "processing"
    THEN [status |-> "processing", error |-> NoError, result |-> NoResult]
    ELSE IF w.outcome.status = "completed"
    THEN [status |-> "completed", error |-> NoError,
          result |-> [userId |-> "default-user", glbUrl |-> GlbUrlOf(jobId),
                      measurements |-> w.mesh,
                      qualityReport |->
                         QualityReport(Confidence(w.degradations, Measured(w)),
                                       w.warnings)]]
    ELSE [status |-> "failed", error |-> w.outcome.error, result |-> NoResult]

\* the Job Consumer receives a message that is waiting
WorkerTake(i) ==
    /\ boot.pc = "worker"
    /\ worker.pc = "idle"
    /\ active = 0
    /\ i \in DOMAIN queue
    /\ i \notin acked
    /\ attempts[i] < MaxDeliveries
    /\ active' = i
    /\ attempts' = [attempts EXCEPT ![i] = @ + 1]
    /\ worker' = [Idle EXCEPT !.pc = "report", !.phase = "processing"]
    /\ UNCHANGED <<jobs, avatars, queue, now, posts, patches, nPosts, nPatches,
                   cfg, assets, acked, artifacts, boot, fs,
                   faults, fit, scene>>

\* the Orchestrator sends a status callback and waits for the answer
WorkerReport ==
    /\ worker.pc = "report"
    /\ PatchEnter(queue[active].jobId, CallbackBody(worker, queue[active].jobId),
                  MaxCallbacks)
    /\ worker' = [worker EXCEPT !.pc = "await", !.awaiting = nPatches + 1]
    /\ UNCHANGED <<cfg, assets, active, acked, artifacts, attempts, boot, fs,
                   faults, fit, scene>>

\* the answer arrives: on success the run goes on (to the first stage, or
\* to the acknowledgement); a callback that failed is sent again
WorkerReplied(r) ==
    /\ worker.pc = "await"
    /\ r.rid = worker.awaiting
    /\ PatchLeave(r)
    /\ worker' =
         IF r.code # 200 THEN [worker EXCEPT !.pc = "report", !.awaiting = 0]
         ELSE IF worker.phase = "processing"
         THEN [worker EXCEPT !.pc = "run", !.stage = 1, !.awaiting = 0,
                             !.reports = Append(@, r.body.status)]
         ELSE [worker EXCEPT !.pc = "ack", !.awaiting = 0,
                             !.reports = Append(@, r.body.status)]
    /\ UNCHANGED <<cfg, assets, active, acked, artifacts, attempts, boot, fs,
                   faults, fit, scene>>

\* the run after one stage with result res; results holds the ordered
\* results of the stages run so far
AfterStage(w, stage, res) ==
    IF res.kind = "fail"
    THEN [w EXCEPT !.pc = "debug", !.phase = "terminal",
                   !.results = Append(@, [stage |-> stage, kind |-> res.kind]),
                   !.outcome = [status |-> "failed",
                                error |-> ErrorText(res.error, stage)]]
    ELSE LET w1 == [w EXCEPT
                      !.results = Append(@, [stage |-> stage, kind |-> res.kind]),
                      !.mesh = IF stage # "estimate" THEN @
                               ELSE IF res.kind = "placeholder"
                                    THEN "placeholder" ELSE "real",
                      !.warnings = IF res.warning = "" THEN @
                                   ELSE @ \cup {res.warning},
                      !.degradations = IF res.degrades THEN @ + 1 ELSE @]
         IN IF w.stage < Len(Stages)
            THEN [w1 EXCEPT !.stage = @ + 1]
            ELSE [w1 EXCEPT !.pc = "report", !.phase = "terminal",
                            !.outcome = [status |-> "completed", error |-> NoError]]

\* what the run uploads in the end: the mesh as estimation left it, run
\* through gltfpack and tinted only if those stages ran
FinalContent(w) ==
    [mesh |-> w.mesh,
     optimized |-> \E k \in DOMAIN w.results :
                      w.results[k] = [stage |-> "optimize", kind |-> "ok"],
     tinted |-> \E k \in DOMAIN w.results :
                   w.results[k] = [stage |-> "tint", kind |-> "ok"]]

\* the objects a stage writes: the masks when refinement ran, the final
\* mesh and reports in the upload stage
AfterStageObjects(store, jobId, w, stage, res) ==
    IF stage = "refine" /\ res.kind = "ok"
    THEN PutObjects(store, jobId, MaskArtifacts, "debug")
    ELSE IF stage = "upload" /\ res.kind = "ok"
    THEN PutObjects(store, jobId, FinalArtifacts, FinalContent(w))
    ELSE store

\* one stage of the pipeline, start to finish
WorkerRunStage ==
    /\ worker.pc = "run"
    /\ LET stage == Stages[worker.stage]
           res == Execute(stage, cfg, assets, faults)
       IN /\ worker' = AfterStage(worker, stage, res)
          /\ artifacts' = AfterStageObjects(artifacts, queue[active].jobId,
                                            worker, stage, res)
    /\ UNCHANGED <<jobs, avatars, queue, now, posts, patches, nPosts, nPatches,
                   cfg, assets, active, acked, attempts, boot, fs,
                   faults, fit, scene>>

\* the debug artifacts a run has produced so far: the masks of a
\* refinement that ran
DebugArtifacts(w) ==
    IF \E k \in DOMAIN w.results :
          w.results[k] = [stage |-> "refine", kind |-> "ok"]
    THEN MaskArtifacts ELSE {}

\* a failed run uploads its partial debug artifacts, best-effort: an
\* upload the store refuses is ignored
WorkerUploadDebug ==
    /\ worker.pc = "debug"
    /\ artifacts' = IF faults.debugStore
                    THEN PutObjects(artifacts, queue[active].jobId,
                                    DebugArtifacts(worker), "debug")
                    ELSE artifacts
    /\ worker' = [worker EXCEPT !.pc = "report",
                                !.debug = IF faults.debugStore THEN "uploaded"
                                          ELSE "refused"]
    /\ UNCHANGED <<jobs, avatars, queue, now, posts, patches, nPosts, nPatches,
                   cfg, assets, active, acked, attempts, boot, fs,
                   faults, fit, scene>>

\* the message is acknowledged once the terminal status is reported
WorkerAck ==
    /\ worker.pc = "ack"
    /\ acked' = acked \cup {active}
    /\ active' = 0
    /\ worker' = Idle
    /\ UNCHANGED <<jobs, avatars, queue, now, posts, patches, nPosts, nPatches,
                   cfg, assets, artifacts, attempts, boot, fs,
                   faults, fit, scene>>

\* the worker process dies: its run is lost, the message it held goes back
\* to the queue, a request it had sent is still served
WorkerCrash ==
    /\ worker.pc # "idle"
    /\ active' = 0
    /\ worker' = Idle
    /\ UNCHANGED <<jobs, avatars, queue, now, posts, patches, nPosts, nPatches,
                   cfg, assets, acked, artifacts, attempts, boot, fs,
                   faults, fit, scene>>

(* ------------- the worker container's entrypoint script --------------- *)
\* Two entrypoint scripts are in the repository: one runs model_sync.py
\* unguarded when MODEL_SYNC_ENABLED is true, installs gltfpack and checks
\* REQUIRE_GLTFPACK; the other runs "model_sync.py || true" whatever the
\* setting and has no gltfpack steps.  Both run under "set -eu" and end
\* with "exec python3 /app/src/worker.py".
Entrypoints == {"sync_checked", "sync_unchecked"}

\* (mutation: the copies are made before the sync has run)
EntrypointStepsCopyFirst(script) ==
    IF script = "sync_checked"
    THEN <<"install_gltfpack", "require_gltfpack", "copy_pixie", "copy_sam2",
           "model_sync", "exec_worker">>
    ELSE <<"copy_pixie", "copy_sam2", "model_sync", "exec_worker">>

\* the steps of a script, top to bottom
EntrypointSteps(script) ==
    IF script = "sync_checked"
    THEN <<"model_sync", "install_gltfpack", "require_gltfpack", "copy_pixie",
           "copy_sam2", "exec_worker">>
    ELSE <<"model_sync", "copy_pixie", "copy_sam2", "exec_worker">>

\* MODEL_SYNC_SOURCES: the source categories of the asset manifest
SyncSources == <<"body", "refine", "tools">>
\* what the private bucket can deliver: everything, the body weights only,
\* or nothing (unreachable, bad credentials)
Remotes == {{"body", "refine", "tools"}, {"body"}, {}}

\* the files: /app/models/{smplx,pixie}, /app/models/{sam3d,sam2},
\* /app/models/tools/gltfpack, /usr/local/bin/gltfpack,
\* /app/src/pipeline/PIXIE/data/pixie_model.tar,
\* /app/vendors/sam2/checkpoints/sam2.1_hiera_large.pt
FsWith(a) ==
    [models_body |-> a.body, models_refine |-> a.refine, models_tools |-> FALSE,
     bin_gltfpack |-> a.gltfpack, pixie_data |-> a.body, sam2_ckpt |-> a.refine]
\* the volume mounted at /app/models: empty, the body weights only, or
\* every source category
Volumes ==
    {[body |-> FALSE, refine |-> FALSE, gltfpack |-> FALSE],
     [body |-> TRUE, refine |-> FALSE, gltfpack |-> FALSE],
     [body |-> TRUE, refine |-> TRUE, gltfpack |-> TRUE]}
\* a container before its entrypoint ran: a volume, and gltfpack baked
\* into the image or not
FreshFs ==
    {[models_body |-> v.body, models_refine |-> v.refine,
      models_tools |-> v.gltfpack, bin_gltfpack |-> baked,
      pixie_data |-> FALSE, sam2_ckpt |-> FALSE] :
        v \in Volumes, baked \in BOOLEAN}

HasLocal(f, source) ==
    CASE source = "body" -> f.models_body
      [] source = "refine" -> f.models_refine
      [] OTHER -> f.models_tools
Fetched(f, source) ==
    CASE source = "body" -> [f EXCEPT !.models_body = TRUE]
      [] source = "refine" -> [f EXCEPT !.models_refine = TRUE]
      [] OTHER -> [f EXCEPT !.models_tools = TRUE]

\* model_sync.py with provisioning enabled: source by source, a file that
\* is present is skipped, one that is absent is fetched; the first fetch
\* that fails ends the program with a non-zero status, what was fetched
\* before it stays
RECURSIVE SyncFrom(_, _, _)
SyncFrom(k, f, remote) ==
    IF k > Len(SyncSources) THEN [fs |-> f, exit |-> 0]
    ELSE IF HasLocal(f, SyncSources[k]) THEN SyncFrom(k + 1, f, remote)
    ELSE IF SyncSources[k] \in remote
         THEN SyncFrom(k + 1, Fetched(f, SyncSources[k]), remote)
         ELSE [fs |-> f, exit |-> 1]

\* the outcomes of python3 /app/src/model_sync.py; with provisioning
\* disabled it fetches nothing, and its exit status is not known
ModelSync(enabled, f, remote) ==
    IF enabled THEN {SyncFrom(1, f, remote)}
    ELSE {[fs |-> f, exit |-> e] : e \in {0, 1}}

\* (mutation: the "|| true" is missing where provisioning is disabled)
SyncAbortsUnguarded(script, enabled, exit) ==
    script = "sync_checked" /\ exit # 0

\* "python3 model_sync.py" under set -e ends the script on a non-zero
\* status; "python3 model_sync.py || true" never does
SyncAborts(script, enabled, exit) ==
    script = "sync_checked" /\ enabled /\ exit # 0

\* command -v gltfpack fails although REQUIRE_GLTFPACK is true: exit 1
GltfpackRequiredAndMissing(c, f) == c.requireGltfpack /\ ~f.bin_gltfpack

\* what the stages' availability checks find in these files
Available(f) ==
    [body |-> f.models_body /\ f.pixie_data, refine |-> f.models_refine,
     gltfpack |-> f.bin_gltfpack, measure |-> TRUE]

\* the entrypoint of a running worker
Started ==
    [script |-> "sync_checked", enabled |-> FALSE, remote |-> {},
     pc |-> "worker", step |-> 6, exit |-> 0,
     done |-> EntrypointSteps("sync_checked"),
     runs |-> 1, copies |-> {}, before |-> <<>>]

BootStep == EntrypointSteps(boot.script)[boot.step]
\* the script after a step: the next step, or ended by exit / set -e
BootAfter(b, name, aborted) ==
    IF aborted
    THEN [b EXCEPT !.pc = "exited", !.done = Append(@, name)]
    ELSE [b EXCEPT !.step = @ + 1, !.done = Append(@, name)]

\* the script after a copy step: copies holds the cp commands this run has
\* executed, each with its outcome ("|| true": a cp that fails is ignored)
BootAfterCopy(b, name, due, copied) ==
    BootAfter([b EXCEPT !.copies = IF due THEN @ \cup {[step |-> name, ok |-> copied]}
                                   ELSE @],
              name, FALSE)

apiVars == <<jobs, avatars, queue, now, posts, patches, nPosts, nPatches>>
runVars ==
    <<cfg, assets, worker, active, acked, artifacts, attempts,
      faults, fit, scene>>

\* if is_true MODEL_SYNC_ENABLED; then model_sync.py; else model_sync.py || true
BootModelSync ==
    /\ boot.pc = "starting" /\ BootStep = "model_sync"
    /\ \E out \in ModelSync(boot.enabled, fs, boot.remote) :
          /\ fs' = out.fs
          /\ boot' = BootAfter([boot EXCEPT !.exit = out.exit], "model_sync",
                               SyncAborts(boot.script, boot.enabled, out.exit))
    /\ UNCHANGED <<apiVars, runVars>>

\* cp /app/models/tools/gltfpack /usr/local/bin/gltfpack || true
BootInstallGltfpack ==
    /\ boot.pc = "starting" /\ BootStep = "install_gltfpack"
    /\ LET due == ~fs.bin_gltfpack /\ fs.models_tools
       IN \E copied \in BOOLEAN :
             /\ fs' = IF due THEN [fs EXCEPT !.bin_gltfpack = copied] ELSE fs
             /\ boot' = BootAfterCopy(boot, "install_gltfpack", due, copied)
    /\ UNCHANGED <<apiVars, runVars>>

\* if is_true REQUIRE_GLTFPACK and gltfpack is not on the PATH: exit 1
BootRequireGltfpack ==
    /\ boot.pc = "starting" /\ BootStep = "require_gltfpack"
    /\ boot' = BootAfter(boot, "require_gltfpack",
                         GltfpackRequiredAndMissing(cfg, fs))
    /\ UNCHANGED <<apiVars, runVars, fs>>

\* (mutation: the PIXIE assets are copied whenever the volume has them)
BootCopyPixieAlways ==
    /\ boot.pc = "starting" /\ BootStep = "copy_pixie"
    /\ LET due == fs.models_body
       IN \E copied \in BOOLEAN :
             /\ fs' = IF due THEN [fs EXCEPT !.pixie_data = copied] ELSE fs
             /\ boot' = BootAfterCopy(boot, "copy_pixie", due, copied)
    /\ UNCHANGED <<apiVars, runVars>>

\* cp -R /app/models/pixie/. /app/src/pipeline/PIXIE/data/ || true
BootCopyPixie ==
    /\ boot.pc = "starting" /\ BootStep = "copy_pixie"
    /\ LET due == ~fs.pixie_data /\ fs.models_body
       IN \E copied \in BOOLEAN :
             /\ fs' = IF due THEN [fs EXCEPT !.pixie_data = copied] ELSE fs
             /\ boot' = BootAfterCopy(boot, "copy_pixie", due, copied)
    /\ UNCHANGED <<apiVars, runVars>>

\* cp -R /app/models/sam2/checkpoints/. /app/vendors/sam2/checkpoints/ || true
BootCopySam2 ==
    /\ boot.pc = "starting" /\ BootStep = "copy_sam2"
    /\ LET due == ~fs.sam2_ckpt /\ fs.models_refine
       IN \E copied \in BOOLEAN :
             /\ fs' = IF due THEN [fs EXCEPT !.sam2_ckpt = copied] ELSE fs
             /\ boot' = BootAfterCopy(boot, "copy_sam2", due, copied)
    /\ UNCHANGED <<apiVars, runVars>>

\* exec python3 /app/src/worker.py: the worker starts consuming jobs, its
\* stages find what the files hold now
BootExecWorker ==
    /\ boot.pc = "starting" /\ BootStep = "exec_worker"
    /\ boot' = [boot EXCEPT !.pc = "worker", !.done = Append(@, "exec_worker")]
    /\ assets' = Available(fs)
    /\ UNCHANGED <<apiVars, cfg, worker, active, acked, artifacts, attempts, fs,
                   faults, fit, scene>>

\* The container is started again (it has exited, or it is restarted while
\* the worker runs): the entrypoint runs from its top on the files as they
\* are; before holds what the run before did.
BootRestart ==
    /\ boot.pc \in {"worker", "exited"}
    /\ boot.runs < MaxBoots
    /\ boot' = [boot EXCEPT !.pc = "starting", !.step = 1, !.exit = 0,
                            !.done = <<>>, !.copies = {}, !.runs = @ + 1,
                            !.before = <<[done |-> boot.done,
                                          copies |-> boot.copies]>>]
    /\ worker' = Idle
    /\ active' = 0
    /\ UNCHANGED <<apiVars, cfg, assets, acked, artifacts, attempts, fs,
                   faults, fit, scene>>

(* ------------- the fit engine (packages/shared/src/fit) --------------- *)
\* A measurement record (TopMeasurements) is a function from the zones it
\* has a number for to centimetres; an optional field left out is a zone
\* outside its domain.  Centimetres are integers here.
ZONES == <<"chest", "waist", "hip", "shoulder", "sleeve", "length">>
ZoneNames == {ZONES[k] : k \in DOMAIN ZONES}

\* typeof m[zone] === "number"
IsNumber(m, zone) == zone \in DOMAIN m

stretchAllowanceCm(stretch) ==
    CASE stretch = "high" -> 3
      [] stretch = "medium" -> 2
      [] stretch = "low" -> 1
      [] OTHER -> 0

\* (mutation: an adjusted ease of zero counts as tight)
statusFromAdjustedEaseZeroTight(adjustedEaseCm) ==
    IF adjustedEaseCm <= 0 THEN "tight"
    ELSE IF adjustedEaseCm <= 4 THEN "regular" ELSE "loose"

statusFromAdjustedEase(adjustedEaseCm) ==
    IF adjustedEaseCm < 0 THEN "tight"
    ELSE IF adjustedEaseCm <= 4 THEN "regular"
    ELSE "loose"

\* statuses.filter((s) => s === status).length
CountOf(statuses, status) ==
    Cardinality({k \in DOMAIN statuses : statuses[k] = status})

combineOverall(statuses) ==
    IF CountOf(statuses, "tight") > 0 THEN "tight"
    ELSE IF Len(statuses) = 0 THEN "unknown"
    ELSE IF CountOf(statuses, "loose") > CountOf(statuses, "regular") THEN "loose"
    ELSE "regular"

\* the zones whose result carries both numbers
Present(zoneResults) ==
    Cardinality({z \in DOMAIN zoneResults :
                    /\ "bodyCm" \in DOMAIN zoneResults[z]
                    /\ "garmentCm" \in DOMAIN zoneResults[z]})

\* (mutation: three covered zones are enough for high)
confidenceFromCoverageThree(zoneResults) ==
    IF Present(zoneResults) >= 3 THEN [confidence |-> "high", reasons |-> <<>>]
    ELSE IF Present(zoneResults) >= 2
    THEN [confidence |-> "medium", reasons |-> <<"Partial size chart coverage">>]
    ELSE [confidence |-> "low", reasons |-> <<"Insufficient measurement coverage">>]

confidenceFromCoverage(zoneResults) ==
    IF Present(zoneResults) >= 4 THEN [confidence |-> "high", reasons |-> <<>>]
    ELSE IF Present(zoneResults) >= 2
    THEN [confidence |-> "medium", reasons |-> <<"Partial size chart coverage">>]
    ELSE [confidence |-> "low", reasons |-> <<"Insufficient measurement coverage">>]

\* the result of one zone: unknown, with the numbers that are there, when
\* one of the two is missing
ZoneResult(request, zone, allowance) ==
    LET body == request.avatarMeasurements
        garment == request.sizeChart
    IN IF ~IsNumber(body, zone) \/ ~IsNumber(garment, zone)
       THEN CASE IsNumber(body, zone) ->
                    [status |-> "unknown", bodyCm |-> body[zone]]
              [] IsNumber(garment, zone) ->
                    [status |-> "unknown", garmentCm |-> garment[zone]]
              [] OTHER -> [status |-> "unknown"]
       ELSE LET easeCm == garment[zone] - body[zone]
                adjustedEaseCm == easeCm + allowance
            IN [status |-> statusFromAdjustedEase(adjustedEaseCm),
                bodyCm |-> body[zone], garmentCm |-> garment[zone],
                easeCm |-> easeCm, adjustedEaseCm |-> adjustedEaseCm]

\* heatmap values and proxyScale, in hundredths
Heat(status) ==
    CASE status = "tight" -> 100
      [] status = "regular" -> 50
      [] status = "loose" -> 0
      [] OTHER -> 25

computeFit(request) ==
    LET allowance == stretchAllowanceCm(request.stretch)
        zones == [z \in ZoneNames |-> ZoneResult(request, z, allowance)]
        IsMeasured(s) == s # "unknown"
        measuredStatuses ==
            SelectSeq([k \in DOMAIN ZONES |-> zones[ZONES[k]].status], IsMeasured)
        overall == combineOverall(measuredStatuses)
        coverage == confidenceFromCoverage(zones)
    IN [overall |-> overall,
        confidence |-> coverage.confidence,
        reasons |-> coverage.reasons,
        zones |-> zones,
        renderDirectives |->
            [proxyScale |-> IF overall = "tight" THEN 98
                            ELSE IF overall = "loose" THEN 102 ELSE 100,
             heatmap |-> [z \in ZoneNames |-> Heat(zones[z].status)]]]

\* the fields of a record that hold a number: 0 stands for a field left out
Given(m) == [z \in {y \in DOMAIN m : m[y] # 0} |-> m[z]]

\* requests: bodies of 100 cm where measured, a chest in every ease from
\* -4 to 5 cm, and every stretch profile (or none given)
BodyInputs ==
    {Given([chest |-> c, waist |-> w, hip |-> h, shoulder |-> s, sleeve |-> l,
            length |-> n]) :
        c \in {0, 100}, w \in {0, 100}, h \in {0, 100}, s \in {0, 100},
        l \in {0, 100}, n \in {0, 100}}
GarmentInputs ==
    {Given([chest |-> c, waist |-> w, hip |-> h, shoulder |-> s, sleeve |-> l,
            length |-> n]) :
        c \in {0} \cup 96..105, w \in {0, 98, 110}, h \in {0, 110},
        s \in {0, 100}, l \in {0, 100}, n \in {0, 100}}
StretchInputs == {Undefined, "none", "low", "medium", "high"}
FitRequests ==
    [avatarMeasurements : BodyInputs, sizeChart : GarmentInputs,
     stretch : StretchInputs]

\* no call of computeFit is under way
NoFit == [pc |-> "none"]

\* computeFit(request)
ComputeFit ==
    /\ fit.pc = "request"
    /\ fit' = [pc |-> "response", request |-> fit.request,
               response |-> computeFit(fit.request)]
    /\ UNCHANGED <<jobs, avatars, queue, now, posts, patches, nPosts, nPatches,
                   cfg, assets, worker, active, acked, artifacts, attempts,
                   boot, fs, faults, scene>>

(* ------------- the web viewer (apps/web/src/viewer) ------------------- *)
\* One AvatarScene.  Every GLB that GLTFLoader delivers is a new object,
\* named by the number of the load() call that asked for it; children are
\* the models in the THREE.Scene, modelRoot is 0 for null, pending are the
\* load() calls waiting at their await, disposed the models whose
\* geometry and materials clearModel() has disposed.
GlbUrls == {"avatars/1/avatar.glb", "avatars/2/avatar.glb"}

\* no viewer is mounted
NoScene == [pc |-> "none"]

\* new AvatarScene(mount)
NewScene ==
    [pc |-> "live", children |-> {}, modelRoot |-> 0, pending |-> {},
     helpers |-> {"grid"}, nLoads |-> 0, disposed |-> {}]

\* clearModel(): nothing without a modelRoot; else the modelRoot leaves
\* the scene, is disposed, and modelRoot is null
clearModel(sc) ==
    IF sc.modelRoot = 0 THEN sc
    ELSE [sc EXCEPT !.children = @ \ {sc.modelRoot},
                    !.disposed = @ \cup {sc.modelRoot},
                    !.modelRoot = 0]

sceneFrame ==
    <<jobs, avatars, queue, now, posts, patches, nPosts, nPatches,
      cfg, assets, worker, active, acked, artifacts, attempts, boot, fs,
      faults, fit>>

\* load(glbUrl), up to its await: the effect of App runs it on the mounted
\* viewer whenever the avatar's glbUrl changes
SceneLoad(glbUrl) ==
    /\ scene.pc = "live"
    /\ scene.nLoads < MaxLoads
    /\ scene' = [clearModel(scene) EXCEPT
                   !.nLoads = @ + 1,
                   !.pending = @ \cup {[id |-> scene.nLoads + 1, url |-> glbUrl]}]
    /\ UNCHANGED sceneFrame

\* the loader resolves: load() goes on after its await, whatever has
\* happened to the scene meanwhile
SceneLoadResolved(l) ==
    /\ l \in scene.pending
    /\ scene' = [scene EXCEPT !.pending = @ \ {l},
                              !.modelRoot = l.id,
                              !.children = @ \cup {l.id}]
    /\ UNCHANGED sceneFrame

\* the loader rejects: load() throws at its await
SceneLoadRejected(l) ==
    /\ l \in scene.pending
    /\ scene' = [scene EXCEPT !.pending = @ \ {l}]
    /\ UNCHANGED sceneFrame

\* destroy(): App calls it once, when the viewer is unmounted or replaced
SceneDestroy ==
    /\ scene.pc = "live"
    /\ scene' = [clearModel(scene) EXCEPT !.pc = "destroyed", !.helpers = {}]
    /\ UNCHANGED sceneFrame

(* --------------------------- specification ---------------------------- *)
\* The store on its own: callbacks come from any caller, no worker runs.
Init ==
    /\ InitStore
    /\ cfg = [requireRealAvatar |-> FALSE, refineEnabled |-> FALSE,
              requireGltfpack |-> FALSE]
    /\ assets = [body |-> FALSE, refine |-> FALSE, gltfpack |-> FALSE,
                 measure |-> TRUE]
    /\ worker = Idle
    /\ active = 0
    /\ acked = {}
    /\ artifacts = {}
    /\ attempts = [i \in JobIds |-> 0]
    /\ boot = Started
    /\ fs = FsWith(assets)
    /\ faults = NoFaults
    /\ fit = NoFit
    /\ scene = NoScene

Next ==
    \/ \E body \in PostBodies : PostReceive(body)
    \/ \E p \in posts : PostCreateJob(p)
    \/ \E p \in posts : PostCreateJobFail(p)
    \/ \E p \in posts : PostEnqueue(p)
    \/ \E p \in posts : PostEnqueueFail(p)
    \/ \E p \in posts : PostReply(p)
    \/ \E id \in JobIds, body \in PatchBodies : PatchReceive(id, body)
    \/ \E r \in patches : PatchCreateAvatar(r)
    \/ \E r \in patches : PatchCreateAvatarFail(r)
    \/ \E r \in patches : PatchUpdateJob(r)
    \/ \E r \in patches : PatchUpdateJobFail(r)
    \/ \E r \in patches : PatchReply(r)

Spec == Init /\ [][Next]_vars

\* The store with the worker: every callback is the Orchestrator's.
InitWorker ==
    /\ InitStore
    /\ cfg \in Cfgs
    /\ assets \in AssetSets
    /\ worker = Idle
    /\ active = 0
    /\ acked = {}
    /\ artifacts = {}
    /\ attempts = [i \in JobIds |-> 0]
    /\ boot = Started
    /\ fs = FsWith(assets)
    /\ faults = NoFaults
    /\ fit = NoFit
    /\ scene = NoScene

NextPipeline ==
    \/ \E body \in PostBodies : PostReceive(body)
    \/ \E p \in posts : PostCreateJob(p)
    \/ \E p \in posts : PostCreateJobFail(p)
    \/ \E p \in posts : PostEnqueue(p)
    \/ \E p \in posts : PostEnqueueFail(p)
    \/ \E p \in posts : PostReply(p)
    \/ \E r \in patches : PatchCreateAvatar(r)
    \/ \E r \in patches : PatchCreateAvatarFail(r)
    \/ \E r \in patches : PatchUpdateJob(r)
    \/ \E r \in patches : PatchUpdateJobFail(r)
    \/ \E i \in JobIds : WorkerTake(i)
    \/ WorkerReport
    \/ \E r \in patches : WorkerReplied(r)
    \/ WorkerRunStage
    \/ WorkerUploadDebug
    \/ WorkerAck

\* uninterrupted runs
SpecPipeline == InitWorker /\ [][NextPipeline]_vars

NextRedelivery ==
    \/ NextPipeline
    \/ \E r \in patches : PatchReply(r)
    \/ WorkerCrash

\* runs that a crash of the worker may cut short, the message redelivered
SpecRedelivery == InitWorker /\ [][NextRedelivery]_vars

\* The container from its start: the entrypoint script, then the worker.
InitStartup ==
    /\ InitStore
    /\ cfg \in {c \in Cfgs : c.refineEnabled}
    /\ assets = [body |-> FALSE, refine |-> FALSE, gltfpack |-> FALSE,
                 measure |-> TRUE]
    /\ worker = Idle
    /\ active = 0
    /\ acked = {}
    /\ artifacts = {}
    /\ attempts = [i \in JobIds |-> 0]
    /\ \E script \in Entrypoints, enabled \in BOOLEAN, remote \in Remotes :
          boot = [script |-> script, enabled |-> enabled, remote |-> remote,
                  pc |-> "starting", step |-> 1, exit |-> 0, done |-> <<>>,
                  runs |-> 1, copies |-> {}, before |-> <<>>]
    /\ fs \in FreshFs
    /\ faults = NoFaults
    /\ fit = NoFit
    /\ scene = NoScene

NextStartup ==
    \/ BootModelSync
    \/ BootInstallGltfpack
    \/ BootRequireGltfpack
    \/ BootCopyPixie
    \/ BootCopySam2
    \/ BootExecWorker
    \/ NextPipeline

SpecStartup == InitStartup /\ [][NextStartup]_vars

\* The entrypoint on its own, run again on the files an earlier run left.
NextRestart ==
    \/ BootModelSync
    \/ BootInstallGltfpack
    \/ BootRequireGltfpack
    \/ BootCopyPixie
    \/ BootCopySam2
    \/ BootExecWorker
    \/ BootRestart

SpecRestart == InitStartup /\ [][NextRestart]_vars

\* The store with the worker, where a stage's execution may raise an error.
InitFaults ==
    /\ InitStore
    /\ cfg \in Cfgs
    /\ assets \in {a \in AssetSets : a.measure}
    /\ worker = Idle
    /\ active = 0
    /\ acked = {}
    /\ artifacts = {}
    /\ attempts = [i \in JobIds |-> 0]
    /\ boot = Started
    /\ fs = FsWith(assets)
    /\ faults \in FaultSets
    /\ fit = NoFit
    /\ scene = NoScene

SpecFaults == InitFaults /\ [][NextPipeline]_vars

\* The fit engine on its own: one call of computeFit per request.
InitFit ==
    /\ InitStore
    /\ cfg = [requireRealAvatar |-> FALSE, refineEnabled |-> FALSE,
              requireGltfpack |-> FALSE]
    /\ assets = [body |-> FALSE, refine |-> FALSE, gltfpack |-> FALSE,
                 measure |-> TRUE]
    /\ worker = Idle
    /\ active = 0
    /\ acked = {}
    /\ artifacts = {}
    /\ attempts = [i \in JobIds |-> 0]
    /\ boot = Started
    /\ fs = FsWith(assets)
    /\ faults = NoFaults
    /\ \E request \in FitRequests : fit = [pc |-> "request", request |-> request]
    /\ scene = NoScene

NextFit == ComputeFit

SpecFit == InitFit /\ [][NextFit]_vars

\* The viewer on its own: load() calls, their outcomes, and destroy().
InitScene ==
    /\ InitStore
    /\ cfg = [requireRealAvatar |-> FALSE, refineEnabled |-> FALSE,
              requireGltfpack |-> FALSE]
    /\ assets = [body |-> FALSE, refine |-> FALSE, gltfpack |-> FALSE,
                 measure |-> TRUE]
    /\ worker = Idle
    /\ active = 0
    /\ acked = {}
    /\ artifacts = {}
    /\ attempts = [i \in JobIds |-> 0]
    /\ boot = Started
    /\ fs = FsWith(assets)
    /\ faults = NoFaults
    /\ fit = NoFit
    /\ scene = NewScene

NextScene ==
    \/ \E glbUrl \in GlbUrls : SceneLoad(glbUrl)
    \/ \E l \in scene.pending : SceneLoadResolved(l)
    \/ \E l \in scene.pending : SceneLoadRejected(l)
    \/ SceneDestroy

SpecScene == InitScene /\ [][NextScene]_vars

(* ------------------------- claims on the store ------------------------ *)
\* the handler of request r, one step later (r itself when it is gone)
After(reqs, r) ==
    IF \E q \in reqs : q.rid = r.rid
    THEN CHOOSE q \in reqs : q.rid = r.rid
    ELSE r

LegalTransition(from, to) ==
    \/ from = to
    \/ from = "queued" /\ to = "processing"
    \/ from = "processing" /\ to \in {"completed", "failed"}

\* C1: whatever callbacks arrive, each change of a job's stored status is
\* queued -> processing or processing -> completed|failed: processing is
\* not skipped and not re-entered, and a terminal status never changes.
C1_StatusSubsequence ==
    [][\A j \in DOMAIN jobs :
         LegalTransition(jobs[j].status, jobs'[j].status)]_vars

\* C2: once every handler has answered, a job has an Avatar row exactly
\* when its stored status is completed.
C2_AvatarIffCompleted ==
    (posts = {} /\ patches = {}) =>
        \A j \in DOMAIN jobs : HasAvatar(j) <=> jobs[j].status = "completed"

\* C3: a completed callback with a result whose Avatar creation fails
\* leaves the job row as it was and never updates it, and such a callback
\* writes the job row only after its Avatar row was created.
C3_CreateFailed(r, r2) ==
    (r.pc = "create" /\ r2 # r /\ r2.pc # "update") =>
        /\ r2.pc = "reply" /\ r2.code = 500 /\ r2.thrown # "none"
        /\ jobs' = jobs
        /\ avatars' = avatars
C3_JobWritten(r, r2) ==
    (jobs' # jobs /\ r2 # r) =>
        /\ r.pc = "update"
        /\ \E a \in avatars : a.id = r.avatarId /\ a.jobId = r.id
        /\ HasAvatar(r.id)'
C4_RepeatSucceeds ==
    \A r \in patches :
        (r.repeats /\ r.pc = "reply") => r.thrown \in {"none", "unreachable"}

MessagesOf(jobId) == {i \in DOMAIN queue : queue[i].jobId = jobId}

\* C6: a POST that is answered with success has created one job row, in
\* status queued, and published one avatar_build message with that job's
\* id and the request's frontPhotoUrl, sidePhotoUrl and heightCm; the
\* response carries that id and status queued.
C6_Answered(p) ==
    (p.pc = "reply" /\ p.code = 200) =>
        /\ p.job.id \in DOMAIN jobs
        /\ jobs[p.job.id].heightCm = p.body.heightCm
        /\ Cardinality(MessagesOf(p.job.id)) = 1
        /\ \A i \in MessagesOf(p.job.id) :
              queue[i] = [jobId |-> p.job.id,
                          frontPhotoUrl |-> p.body.frontPhotoUrl,
                          sidePhotoUrl |-> p.body.sidePhotoUrl,
                          heightCm |-> p.body.heightCm]
        /\ p.response = [id |-> p.job.id, status |-> "queued"]
C6_Created(p, p2) ==
    /\ (p.pc = "create" /\ p2.pc = "enqueue") =>
          /\ Len(jobs') = Len(jobs) + 1
          /\ p2.job.id = Len(jobs')
          /\ jobs'[p2.job.id].status = "queued"
    /\ (p.pc = "enqueue" /\ p2.pc = "reply" /\ p2.code = 200) =>
          /\ Len(queue') = Len(queue) + 1
          /\ Len(jobs') = Len(jobs)
C6_OnlyPostCreates ==
    /\ Len(jobs') # Len(jobs) =>
          \E p \in posts : p.pc = "create" /\ After(posts', p).pc = "enqueue"
    /\ queue' # queue =>
          \E p \in posts : p.pc = "enqueue" /\ After(posts', p).code = 200
C6_OneJobOneMessage ==
    /\ [](\A p \in posts : C6_Answered(p))
    /\ [][/\ \A p \in posts : C6_Created(p, After(posts', p))
          /\ C6_OnlyPostCreates]_vars

\* C6 witness: a request with a side photo was answered with success
C6_Witness ==
    \E p \in posts :
        /\ p.pc = "reply" /\ p.code = 200
        /\ p.body.sidePhotoUrl # Undefined
        /\ Len(queue) = 1

\* C7: an Avatar row is inserted only by a callback with status completed
\* and a result; no step changes or removes a row that exists.
C7_OnlyCompletedWithResultCreates ==
    [][/\ avatars \subseteq avatars'
       /\ avatars' # avatars =>
            \E r \in patches :
               /\ r.pc = "create"
               /\ r.body.status = "completed"
               /\ r.body.result # NoResult
               /\ avatars' = avatars \cup
                    {NewAvatarRow(After(patches', r).avatarId, r.id, r.body.result)}]_vars

\* C7 witness: a failed callback that carried a result was applied, and so
\* was a completed one to a job that has its Avatar
C7_Witness ==
    /\ \E r \in patches :
          /\ r.body.status = "failed" /\ r.body.result # NoResult
          /\ r.pc = "reply" /\ r.code = 200
    /\ avatars # {}

\* C8: no two Avatar rows have the same job id.
C8_OneAvatarPerJob ==
    \A a, b \in avatars : a.jobId = b.jobId => a = b

\* C8 witness: two completed callbacks raced for one job; one inserted the
\* row and the index rejected the other
C8_Witness ==
    \E r, q \in patches :
        /\ r.rid # q.rid /\ r.id = q.id
        /\ q.pc = "update" /\ q.avatarId # 0
        /\ r.thrown = "P2002"

\* C9: startedAt changes only by a processing callback, completedAt only
\* by a completed or failed one, and a timestamp that is set is never
\* overwritten.
C9_Row(j, old, new) ==
    /\ new.startedAt # old.startedAt =>
          \E r \in patches :
             r.pc = "update" /\ r.id = j /\ r.body.status = "processing"
    /\ new.completedAt # old.completedAt =>
          \E r \in patches :
             r.pc = "update" /\ r.id = j /\ r.body.status \in {"completed", "failed"}
    /\ old.startedAt # NoDate => new.startedAt = old.startedAt
    /\ old.completedAt # NoDate => new.completedAt = old.completedAt
C9_TimestampsSetOnce ==
    [][\A j \in DOMAIN jobs : C9_Row(j, jobs[j], jobs'[j])]_vars

(* ------------------------ claims on the worker ------------------------ *)
JobOf(i) == queue[i].jobId
KeysOf(jobId) == {ArtifactKey(jobId, n) : n \in FinalArtifacts \cup MaskArtifacts}

\* C5: when a message is delivered again after a crash, the objects in the
\* store are all under avatars/<jobId>/ with the names an uninterrupted run
\* writes, and the re-run's terminal callback is accepted (unless the
\* database is unreachable), so that the re-run ends with its terminal
\* status stored.
C5_RedeliverySameOutcome ==
    /\ \A o \in artifacts : \E j \in DOMAIN jobs : o.key \in KeysOf(j)
    /\ (active # 0 /\ attempts[active] > 1) =>
          \A r \in patches :
             (r.rid = worker.awaiting /\ worker.phase = "terminal"
                 /\ r.pc = "reply")
             => r.thrown \in {"none", "unreachable"}

\* C10: with body-shape assets missing and REQUIRE_REAL_AVATAR on, the run
\* resolves to failed/DependencyMissing, no mesh object is written, no
\* Avatar row exists, and an acknowledged job is stored failed with error
\* kind DependencyMissing.
C10_StrictMissingFails ==
    (cfg.requireRealAvatar /\ ~assets.body) =>
        /\ avatars = {}
        /\ \A o \in artifacts : o.key[3] # "avatar.glb"
        /\ worker.phase = "terminal" =>
              worker.outcome = [status |-> "failed",
                                error |-> DependencyMissing("estimate")]
        /\ \A i \in acked :
              /\ jobs[JobOf(i)].status = "failed"
              /\ jobs[JobOf(i)].error.kind = "DependencyMissing"

\* C10 witness: such a run was reported and acknowledged
C10_Witness ==
    /\ cfg.requireRealAvatar /\ ~assets.body
    /\ acked # {}

\* the mesh object of a job is in the object store
HasMesh(jobId) == \E o \in artifacts : o.key = ArtifactKey(jobId, "avatar.glb")
\* the quality report the run in progress resolves to
RunQualityReport == CallbackBody(worker, JobOf(active)).result.qualityReport
\* a quality report of a placeholder run: medium or low, with the warning
PlaceholderReport(q) ==
    /\ q.confidence \in {"medium", "low"}
    /\ "placeholder output" \in q.warnings
\* mesh optimization is strict and gltfpack is missing
OptimizeFails == cfg.requireGltfpack /\ ~assets.gltfpack

HasObject(jobId, name) == \E o \in artifacts : o.key = ArtifactKey(jobId, name)
\* mesh, measurements, quality report and appearance documents of a job
HasFinalObjects(jobId) ==
    \A n \in {"avatar.glb", "measurements.json", "quality_report.json",
              "appearance.json"} : HasObject(jobId, n)
NoMaskObjects ==
    \A o \in artifacts :
        o.key[3] \notin {"mask_front.png", "mask_side.png",
                         "silhouette_targets.json"}

\* C12: with silhouette refinement disabled, no run executes the
\* refinement stage (it is skipped) and no mask object is in the store;
\* and with the body-shape assets present (gltfpack present where
\* optimization is strict, measurement extraction able to run) the run
\* resolves to completed with confidence
\* high, and the acknowledged job went processing then completed and has
\* its mesh, measurements, quality and appearance objects and an Avatar
\* of confidence high.
C12_RefinementDisabled ==
    ~cfg.refineEnabled =>
        /\ \A k \in DOMAIN worker.results :
              worker.results[k].stage = "refine" => worker.results[k].kind = "skip"
        /\ NoMaskObjects
        /\ "silhouette refinement skipped" \notin worker.warnings
        /\ (assets.body /\ ~OptimizeFails /\ assets.measure) =>
              /\ worker.phase = "terminal" =>
                    /\ worker.outcome.status = "completed"
                    /\ RunQualityReport.confidence = "high"
                    /\ HasFinalObjects(JobOf(active))
              /\ worker.pc = "ack" => worker.reports = <<"processing", "completed">>
              /\ \A i \in acked :
                    /\ jobs[JobOf(i)].status = "completed"
                    /\ HasFinalObjects(JobOf(i))
                    /\ \E a \in avatars :
                          /\ a.jobId = JobOf(i)
                          /\ a.qualityReport.confidence = "high"

\* C12 witness: refinement is disabled although its assets are present,
\* and a run with the real body model was acknowledged
C12_Witness ==
    /\ ~cfg.refineEnabled /\ assets.refine /\ assets.body /\ ~OptimizeFails
    /\ acked # {}
    /\ Len(worker.results) = 0
    /\ \E a \in avatars : a.measurements = "real"

\* how many accepted reports of the run in progress carried this status
ReportsOf(status) ==
    Cardinality({k \in DOMAIN worker.reports : worker.reports[k] = status})
\* a status callback with this status is being sent in this step
Sends(status) ==
    \E r \in patches' : r \notin patches /\ r.rid = nPatches + 1
                        /\ r.body.status = status

\* C13: in every run the report of processing is accepted exactly once,
\* before the first stage (photo fetch): while a stage can run or has run,
\* the one accepted report is the first and the job is stored processing,
\* not queued; processing is reported only before any stage and is not
\* reported again once accepted.
C13_State ==
    /\ ReportsOf("processing") <= 1
    /\ (worker.pc = "run" \/ Len(worker.results) > 0) =>
          /\ ReportsOf("processing") = 1
          /\ worker.reports[1] = "processing"
          /\ jobs[JobOf(active)].status # "queued"
    /\ worker.pc = "run" => jobs[JobOf(active)].status = "processing"
C13_Step ==
    /\ worker'.results # worker.results /\ worker'.results # <<>> =>
          /\ worker.reports = <<"processing">>
          /\ jobs[JobOf(active)].status = "processing"
          /\ worker.results = <<>> => worker'.results[1].stage = "fetch"
    /\ Sends("processing") =>
          /\ worker.results = <<>>
          /\ worker.reports = <<>>
Terminal == {"completed", "failed"}
HasAnyFinalObject(jobId) ==
    \E n \in {"avatar.glb", "measurements.json", "quality_report.json",
              "appearance.json"} : HasObject(jobId, n)

\* C14: a run resolves to exactly one of completed and failed and keeps
\* it; its terminal callback carries that status, is accepted at most once
\* and exactly once when the run ends (the message is acknowledged), after
\* the report of processing; the stages always end in the terminal report;
\* and a job has a final mesh or report object only if its run resolved to
\* completed.
C14_State ==
    /\ ReportsOf("completed") + ReportsOf("failed") <= 1
    /\ worker.phase = "terminal" => worker.outcome.status \in Terminal
    /\ worker.pc = "ack" =>
          worker.reports = <<"processing", worker.outcome.status>>
    /\ \A i \in DOMAIN queue :
          HasAnyFinalObject(JobOf(i)) =>
             \/ /\ i = active
                /\ worker.phase = "terminal"
                /\ worker.outcome.status = "completed"
             \/ i \in acked /\ jobs[JobOf(i)].status = "completed"
    /\ \A i \in acked : jobs[JobOf(i)].status \in Terminal
C14_Step ==
    /\ \A s \in Terminal :
          Sends(s) =>
             /\ worker.phase = "terminal"
             /\ worker.outcome.status = s
             /\ ReportsOf("completed") + ReportsOf("failed") = 0
    /\ (worker.pc = "run" /\ worker'.pc # "run") =>
          /\ worker'.pc \in {"report", "debug"}
          /\ worker'.phase = "terminal"
          /\ worker'.outcome.status \in Terminal
    /\ (worker.pc = "debug" /\ worker'.pc # "debug") => worker'.pc = "report"
    /\ (worker.phase = "terminal" /\ worker'.phase = "terminal") =>
          worker'.outcome = worker.outcome
    /\ acked' # acked =>
          /\ ReportsOf("completed") + ReportsOf("failed") = 1
          /\ jobs[JobOf(active)].status = worker.outcome.status
C14_OneTerminalCallback == []C14_State /\ [][C14_Step]_vars

\* C14 witness: a run that failed at mesh optimization was acknowledged
\* after its terminal callback was rejected once; nothing was uploaded
C14_Witness ==
    /\ acked # {}
    /\ \A i \in acked : jobs[JobOf(i)].status = "failed"
    /\ artifacts = {}
    /\ OptimizeFails
    /\ nPatches = 3

\* C15: a message is acknowledged only by a run whose terminal callback
\* was accepted, and at the moment it is acknowledged its job is stored
\* completed or failed, not queued or processing, whatever crashes and
\* redeliveries came before.
C15_AckAfterTerminalStored ==
    [][acked' # acked =>
         /\ worker.phase = "terminal"
         /\ worker.reports = <<"processing", worker.outcome.status>>
         /\ jobs[JobOf(active)].status \in {"completed", "failed"}]_vars

(* ---------------------- claims on the entrypoint ---------------------- *)
\* C16: when MODEL_SYNC_ENABLED is true and model_sync.py ended with a
\* failure, the worker process is not started and no message is ever
\* delivered to it.
C16_SyncFailureAbortsStartup ==
    (boot.enabled /\ boot.exit # 0) =>
        /\ boot.pc # "worker"
        /\ worker = Idle
        /\ \A i \in JobIds : attempts[i] = 0

ResultKinds(stage) ==
    {worker.results[k].kind :
        k \in {n \in DOMAIN worker.results : worker.results[n].stage = stage}}

\* C17 (amended): with MODEL_SYNC_ENABLED false the sync step fetches
\* nothing and never ends the script, missing model weights never end it,
\* and the script ends without starting the worker only at the
\* REQUIRE_GLTFPACK check, when REQUIRE_GLTFPACK is true and gltfpack is
\* not installed; a worker that started finds missing assets at job time:
\* body-shape estimation is real exactly when the body weights are in
\* place and fails or falls back otherwise, optimization runs exactly when
\* gltfpack is installed.
C17_State ==
    ~boot.enabled =>
        /\ boot.pc = "exited" =>
              /\ boot.script = "sync_checked"
              /\ boot.done[Len(boot.done)] = "require_gltfpack"
              /\ cfg.requireGltfpack /\ ~fs.bin_gltfpack
        /\ boot.pc = "worker" =>
              /\ assets = Available(fs)
              /\ ResultKinds("estimate") \subseteq
                    (IF fs.models_body /\ fs.pixie_data THEN {"ok"}
                     ELSE IF cfg.requireRealAvatar THEN {"fail"}
                     ELSE {"placeholder"})
              /\ ResultKinds("optimize") \subseteq
                    (IF fs.bin_gltfpack THEN {"ok"}
                     ELSE IF cfg.requireGltfpack THEN {"fail"} ELSE {"skip"})
        /\ boot.pc # "worker" => worker = Idle /\ active = 0
C17_Step ==
    ~boot.enabled =>
        /\ (boot.pc = "starting" /\ boot.done = <<>> /\ boot' # boot) =>
              /\ boot'.pc = "starting"
              /\ boot'.done = <<"model_sync">>
              /\ fs' = fs
        /\ (boot.pc = "starting" /\ boot'.pc = "exited") =>
              /\ cfg.requireGltfpack
              /\ ~fs.bin_gltfpack
Relocations == {"install_gltfpack", "copy_pixie", "copy_sam2"}
AssetRoot(f) == <<f.models_body, f.models_refine, f.models_tools>>
Relocated(f) == <<f.bin_gltfpack, f.pixie_data, f.sam2_ckpt>>

\* C18: the sync step is the first step of the entrypoint and has ended,
\* with success or with its failure passed over, before anything else
\* runs; the gltfpack install and the PIXIE and SAM2 copies run after it
\* and before the worker is started; the worker takes messages only once
\* started; and no file of the asset root or of the copies changes once
\* the worker is started, so none changes while a job is processed.
C18_State ==
    /\ \A k \in DOMAIN boot.done :
          /\ boot.done[k] = "model_sync" <=> k = 1
          /\ boot.done[k] = "exec_worker" =>
                k = Len(boot.done) /\ boot.pc = "worker"
    /\ boot.pc = "worker" =>
          /\ boot.done[Len(boot.done)] = "exec_worker"
          /\ {"copy_pixie", "copy_sam2"} \subseteq
                {boot.done[k] : k \in DOMAIN boot.done}
    /\ boot.pc # "worker" =>
          /\ worker = Idle /\ active = 0 /\ acked = {}
          /\ \A i \in JobIds : attempts[i] = 0
C18_Step ==
    /\ fs' # fs =>
          /\ boot.pc = "starting" /\ boot'.pc # "worker"
          /\ worker = Idle /\ active = 0
    /\ AssetRoot(fs') # AssetRoot(fs) =>
          boot.done = <<>> /\ boot'.done = <<"model_sync">>
    /\ Relocated(fs') # Relocated(fs) =>
          /\ Len(boot.done) >= 1 /\ boot.done[1] = "model_sync"
          /\ boot'.done[Len(boot'.done)] \in Relocations
    /\ (active' # active \/ attempts' # attempts) => boot.pc = "worker"
C18_SyncThenCopiesThenWorker == []C18_State /\ [][C18_Step]_vars

\* C18 witness: the sync fetched the assets, the copies were made, and the
\* worker, started afterwards, is running a job's stages
C18_Witness ==
    /\ boot.enabled /\ boot.exit = 0
    /\ boot.remote = {"body", "refine", "tools"}
    /\ fs.bin_gltfpack /\ fs.pixie_data /\ fs.sam2_ckpt
    /\ boot.pc = "worker"
    /\ worker.pc = "run" /\ Len(worker.results) = 2

\* the fixed order of the stages
FixedOrder ==
    <<"fetch", "estimate", "refine", "measure", "export", "optimize", "tint",
      "upload">>

\* C19: the results of a run are those of photo fetch, body-shape
\* estimation, silhouette refinement (run or skipped), measurement
\* extraction, mesh export, mesh optimization, tint estimation and artifact
\* upload in this order, each at most once and none left out; a stage is
\* entered only when every stage before it has its result, and each step
\* of the run adds the result of exactly the next stage in the order.
C19_State ==
    /\ Len(worker.results) <= Len(FixedOrder)
    /\ \A k \in DOMAIN worker.results : worker.results[k].stage = FixedOrder[k]
    /\ worker.pc = "run" =>
          /\ worker.stage = Len(worker.results) + 1
          /\ worker.stage <= Len(FixedOrder)
          /\ \A k \in DOMAIN worker.results : worker.results[k].kind # "fail"
    /\ (worker.phase = "terminal" /\ worker.outcome.status = "completed") =>
          Len(worker.results) = Len(FixedOrder)
C19_Step ==
    worker'.results # worker.results /\ worker'.results # <<>> =>
        /\ worker.pc = "run"
        /\ Len(worker'.results) = Len(worker.results) + 1
        /\ \A k \in DOMAIN worker.results : worker'.results[k] = worker.results[k]
        /\ worker'.results[Len(worker'.results)].stage =
              FixedOrder[Len(worker.results) + 1]
C19_StagesInFixedOrder == []C19_State /\ [][C19_Step]_vars

\* C19 witness: a run went through all eight stages, refinement skipped
\* and optimization skipped among them
C19_Witness ==
    /\ Len(worker.results) = 8
    /\ worker.results[3].kind = "skip"
    /\ worker.results[6].kind = "skip"
    /\ worker.results[8] = [stage |-> "upload", kind |-> "ok"]

(* ---------------------- claims on the confidence ---------------------- *)
Rank(confidence) ==
    CASE confidence = "high" -> 3 [] confidence = "medium" -> 2 [] OTHER -> 1
\* the degradations of a run, read off its stage results: a strict stage
\* that used a placeholder, an optional stage that was enabled and skipped
\* for missing assets
DegradedStages(w) ==
    {k \in DOMAIN w.results :
        \/ w.results[k].kind = "placeholder"
        \/ w.results[k].stage = "refine" /\ w.results[k].kind = "skip"
              /\ cfg.refineEnabled}
Unmeasured(w) ==
    \E k \in DOMAIN w.results :
        w.results[k].stage = "measure" /\ w.results[k].kind # "ok"
\* the confidence the claim gives a run
ExpectedConfidence(w) ==
    IF Unmeasured(w) THEN "low"
    ELSE IF Cardinality(DegradedStages(w)) = 0 THEN "high"
    ELSE IF Cardinality(DegradedStages(w)) = 1 THEN "medium"
    ELSE "low"
\* the warnings the degradations of a run must have left
ExpectedWarnings(w) ==
    {"placeholder output" : k \in {n \in DOMAIN w.results :
                                      w.results[n].kind = "placeholder"}}
    \cup {"silhouette refinement skipped" :
             k \in {n \in DOMAIN w.results :
                       w.results[n].stage = "refine" /\ cfg.refineEnabled
                       /\ w.results[n].kind = "skip"}}
    \cup {"measurements unavailable" : k \in {n \in DOMAIN w.results : Unmeasured(w)}}
RunConfidence == Confidence(worker.degradations, Measured(worker))

\* C20: the confidence is high for no degradation, medium for exactly one,
\* low for more than one or when measurement extraction could not run, and
\* never rises when degradations are added; the quality report a run
\* resolves to, and the one stored with the Avatar, carries the confidence
\* that its stage results give and a warning for every degradation.
C20_Function ==
    /\ \A measured \in BOOLEAN :
          /\ Confidence(0, measured) = IF measured THEN "high" ELSE "low"
          /\ Confidence(1, measured) = IF measured THEN "medium" ELSE "low"
          /\ \A d \in 2..Len(Stages) : Confidence(d, measured) = "low"
    /\ \A d1, d2 \in 0..Len(Stages), m1, m2 \in BOOLEAN :
          (d1 <= d2 /\ (m2 => m1)) =>
             Rank(Confidence(d2, m2)) <= Rank(Confidence(d1, m1))
C20_State ==
    /\ C20_Function
    /\ RunConfidence = ExpectedConfidence(worker)
    /\ ExpectedWarnings(worker) \subseteq worker.warnings
    /\ (worker.phase = "terminal" /\ worker.outcome.status = "completed") =>
          /\ RunQualityReport.confidence = ExpectedConfidence(worker)
          /\ ExpectedWarnings(worker) \subseteq RunQualityReport.warnings
          /\ worker.pc = "ack" =>
                \E a \in avatars :
                   /\ a.jobId = JobOf(active)
                   /\ a.qualityReport =
                         [confidence |-> ExpectedConfidence(worker),
                          warnings |-> worker.warnings]
C20_Step ==
    (worker.pc = "run" /\ worker'.results # worker.results) =>
        Rank(Confidence(worker'.degradations, Measured(worker'))) <= Rank(RunConfidence)
C20_ConfidenceFromDegradations == []C20_State /\ [][C20_Step]_vars

\* C20 witness: a run completed with one degradation and without its
\* measurements: the Avatar is stored with confidence low and both
\* warnings
C20_Witness ==
    /\ worker.pc = "ack"
    /\ Cardinality(DegradedStages(worker)) = 1
    /\ Unmeasured(worker)
    /\ \E a \in avatars :
          /\ a.qualityReport.confidence = "low"
          /\ {"silhouette refinement skipped", "measurements unavailable"}
                \subseteq a.qualityReport.warnings

(* --------------------- claims on errors of stages --------------------- *)
\* the stage whose execution raises the run's fault was attempted: its
\* availability check passed and the run got to it
Raised(w) ==
    /\ faults.stage # "none"
    /\ StageResult(faults.stage, cfg, assets).kind = "ok"
    /\ \E k \in DOMAIN w.results : w.results[k].stage = faults.stage
\* the error is outside the fallback policy of its stage
NotCovered ==
    \/ faults.kind \in {"InvalidInput", "Timeout", "StoreFailure"}
    \/ faults.stage = "export"
    \/ faults.stage = "estimate" /\ cfg.requireRealAvatar
    \/ faults.stage = "optimize" /\ cfg.requireGltfpack

\* C21: when a stage raises an error that its fallback policy does not
\* cover (any InvalidInput among them), that stage is the last one the run
\* executes, no final mesh or report object is written, the run resolves
\* to failed with the kind of the error and the stage as its message, the
\* job is stored so once the run ends, and the upload of the partial debug
\* artifacts, refused or not, leaves that outcome as it is.
C21_State ==
    (active # 0 /\ Raised(worker) /\ NotCovered) =>
        LET n == Len(worker.results)
            e == ErrorText(faults.kind, faults.stage)
        IN /\ worker.results[n] = [stage |-> faults.stage, kind |-> "fail"]
           /\ worker.pc \in {"debug", "report", "await", "ack"}
           /\ worker.outcome = [status |-> "failed", error |-> e]
           /\ ~HasAnyFinalObject(JobOf(active))
           /\ worker.pc = "ack" =>
                 /\ jobs[JobOf(active)].status = "failed"
                 /\ jobs[JobOf(active)].error = e
C21_Step ==
    (active # 0 /\ Raised(worker) /\ NotCovered /\ worker'.pc # "idle") =>
        /\ worker'.results = worker.results
        /\ worker'.outcome = worker.outcome
        /\ worker'.stage = worker.stage
C21_UncoveredErrorFailsJob == []C21_State /\ [][C21_Step]_vars

\* C21 witness: a malformed photo failed the fetch stage, the store
\* refused the debug upload, and the job is stored failed with InvalidInput
C21_Witness ==
    /\ faults = [stage |-> "fetch", kind |-> "InvalidInput", debugStore |-> FALSE]
    /\ worker.pc = "ack"
    /\ worker.debug = "refused"
    /\ worker.results = <<[stage |-> "fetch", kind |-> "fail"]>>
    /\ jobs[JobOf(active)].status = "failed"
    /\ jobs[JobOf(active)].error = ErrorText("InvalidInput", "fetch")
    /\ artifacts = {}

(* ------------------ claims on reaching a terminal status -------------- *)
\* The run in progress resolved to completed and its Avatar row is stored,
\* but the job is stored processing and no request that could still write
\* the job row is under way: every terminal callback the run sends from
\* here on starts with db.avatar.create, which avatars_jobId_key rejects.
Stuck ==
    /\ active # 0
    /\ worker.phase = "terminal"
    /\ worker.outcome.status = "completed"
    /\ worker.pc \in {"report", "await"}
    /\ jobs[JobOf(active)].status = "processing"
    /\ HasAvatar(JobOf(active))
    /\ \A r \in patches :
          \/ r.pc = "create"
          \/ r.pc = "reply" /\ r.code # 200

\* C22: every job reported processing eventually is stored completed or
\* failed, the terminal callback being sent again until it is recorded:
\* no run gets into a state from which none of its terminal callbacks can
\* be recorded, however often it is sent and whatever the store accepts.
C22_TerminalRecordable == ~Stuck

\* once there, a run stays there: the job is stored processing for good
C22_StuckForGood == [][Stuck => Stuck']_vars

(* ------------------ claims on the best-effort stages ------------------ *)
\* the run in progress has executed this stage with this result
Ran(stage, kind) ==
    \E k \in DOMAIN worker.results :
        worker.results[k] = [stage |-> stage, kind |-> kind]
\* the mesh object of a job, as a set (empty when there is none)
MeshOf(jobId) == {o \in artifacts : o.key = ArtifactKey(jobId, "avatar.glb")}

\* C23: when gltfpack is unavailable and not required, the optimization
\* stage is skipped with a warning, the mesh uploaded is the unoptimized
\* one and the job ends completed (unless the upload itself fails); when
\* REQUIRE_GLTFPACK is true and gltfpack is unavailable, the run fails at
\* optimization and no mesh is uploaded nor the job stored completed; and
\* a tinting that raises an error is skipped with a warning, the job
\* ending completed with an untinted mesh.
C23_State ==
    /\ (active # 0 /\ ~assets.gltfpack /\ ~cfg.requireGltfpack
           /\ \E k \in DOMAIN worker.results : worker.results[k].stage = "optimize")
       => /\ Ran("optimize", "skip")
          /\ "optimization skipped" \in worker.warnings
          /\ \A o \in MeshOf(JobOf(active)) : ~o.content.optimized
          /\ (worker.pc = "ack" /\ faults.stage # "upload") =>
                /\ jobs[JobOf(active)].status = "completed"
                /\ MeshOf(JobOf(active)) # {}
    /\ (~assets.gltfpack /\ cfg.requireGltfpack)
       => /\ \A id \in DOMAIN jobs :
                jobs[id].status # "completed" /\ MeshOf(id) = {}
          /\ ~Ran("optimize", "skip")
          /\ worker.outcome.status # "completed"
    /\ (active # 0 /\ faults.stage = "tint"
           /\ \E k \in DOMAIN worker.results : worker.results[k].stage = "tint")
       => /\ Ran("tint", "skip")
          /\ "tint skipped" \in worker.warnings
          /\ worker.outcome.status # "failed"
          /\ \A o \in MeshOf(JobOf(active)) : ~o.content.tinted
          /\ worker.pc = "ack" =>
                /\ jobs[JobOf(active)].status = "completed"
                /\ MeshOf(JobOf(active)) # {}
C23_Step ==
    (worker.pc = "run" /\ worker' # worker
        /\ Stages[worker.stage] \in {"optimize", "tint"}
        /\ ~(cfg.requireGltfpack /\ Stages[worker.stage] = "optimize"))
    => worker'.pc = "run" /\ worker'.stage = worker.stage + 1
Covered(request, zone) ==
    zone \in DOMAIN request.avatarMeasurements /\ zone \in DOMAIN request.sizeChart
\* garment plus stretch allowance minus body
AdjustedEase(request, zone) ==
    request.sizeChart[zone] + stretchAllowanceCm(request.stretch)
    - request.avatarMeasurements[zone]

\* C24: a zone of computeFit's response is tight exactly when both of its
\* measurements are in the request and garment plus stretch allowance is
\* below body, regular when the adjusted ease is 0 to 4 cm, loose above 4,
\* unknown exactly when a measurement is missing; and the overall status is
\* tight whenever some zone is tight.
C24_TightZones ==
    fit.pc = "response" =>
        LET req == fit.request
            res == fit.response
        IN /\ \A z \in ZoneNames :
                /\ res.zones[z].status = "tight" <=>
                      (Covered(req, z) /\ AdjustedEase(req, z) < 0)
                /\ res.zones[z].status = "regular" <=>
                      (Covered(req, z) /\ AdjustedEase(req, z) \in 0..4)
                /\ res.zones[z].status = "loose" <=>
                      (Covered(req, z) /\ AdjustedEase(req, z) > 4)
                /\ res.zones[z].status = "unknown" <=> ~Covered(req, z)
           /\ (\E z \in ZoneNames : res.zones[z].status = "tight")
                 => res.overall = "tight"

\* C24 witness: a medium-stretch chest of 97 cm on a body of 100 cm is
\* tight by one centimetre and makes the overall status tight although
\* two other zones are loose
C24_Witness ==
    /\ fit.pc = "response"
    /\ fit.request.stretch = "medium"
    /\ \A z \in {"chest", "waist", "hip"} : Covered(fit.request, z)
    /\ fit.request.sizeChart["chest"] = 97
    /\ fit.response.zones["chest"].adjustedEaseCm = -1
    /\ fit.response.zones["waist"].status = "loose"
    /\ fit.response.zones["hip"].status = "loose"
    /\ fit.response.overall = "tight"

\* the zones both of whose measurements are in the request
Coverage(request) == Cardinality({z \in ZoneNames : Covered(request, z)})
\* the request with one more zone covered
WithZone(request, zone) ==
    [request EXCEPT
       !.avatarMeasurements =
           [z \in DOMAIN @ \cup {zone} |-> IF z \in DOMAIN @ THEN @[z] ELSE 100],
       !.sizeChart =
           [z \in DOMAIN @ \cup {zone} |-> IF z \in DOMAIN @ THEN @[z] ELSE 100]]

\* C25: computeFit's confidence is high, with no reason, when at least 4
\* zones are covered, medium with the reason 'Partial size chart coverage'
\* when 2 or 3 are, low with 'Insufficient measurement coverage' when 0 or
\* 1 is; covering one more zone never lowers the confidence.
C25_ConfidenceFromCoverage ==
    fit.pc = "response" =>
        LET req == fit.request
            res == fit.response
            n == Coverage(req)
        IN /\ n >= 4 => res.confidence = "high" /\ res.reasons = <<>>
           /\ n \in {2, 3} =>
                 /\ res.confidence = "medium"
                 /\ res.reasons = <<"Partial size chart coverage">>
           /\ n \in {0, 1} =>
                 /\ res.confidence = "low"
                 /\ res.reasons = <<"Insufficient measurement coverage">>
           /\ \A z \in ZoneNames :
                 Rank(computeFit(WithZone(req, z)).confidence) >= Rank(res.confidence)

\* C25 witness: three covered zones give medium, and a fourth gives high
C25_Witness ==
    /\ fit.pc = "response"
    /\ Coverage(fit.request) = 3
    /\ fit.response.confidence = "medium"
    /\ ~Covered(fit.request, "length")
    /\ computeFit(WithZone(fit.request, "length")).confidence = "high"

(* ---------------- claims on the REQUIRE_GLTFPACK check ---------------- *)
\* the entrypoint has run this step
BootDone(name) == \E k \in DOMAIN boot.done : boot.done[k] = name
\* the step that ended the script, when it has ended without the worker
ExitedAt == boot.done[Len(boot.done)]
\* the container fails fast on a required gltfpack that is missing
FailsFast ==
    /\ (cfg.requireGltfpack /\ boot.pc = "worker") => fs.bin_gltfpack
    /\ (cfg.requireGltfpack /\ ~fs.bin_gltfpack /\ boot.pc # "starting")
          => boot.pc = "exited" /\ ~BootDone("copy_pixie")
    /\ (~cfg.requireGltfpack /\ boot.pc = "exited") => ExitedAt = "model_sync"

\* C26: with REQUIRE_GLTFPACK true the worker is started only if gltfpack
\* is on the PATH after the install step; when the install copy failed or
\* there was no binary, the entrypoint exits before the copies and before
\* the worker; with REQUIRE_GLTFPACK false the entrypoint never
\* exits for want of gltfpack.
C26_RequiredGltfpackFailsFast == FailsFast

\* the same, of containers whose entrypoint is the script with the check
C26_CheckedScriptFailsFast == boot.script = "sync_checked" => FailsFast

(* ------------------ claims on the validation of POST ------------------ *)
\* a body the route must reject: frontPhotoUrl missing or no URL, heightCm
\* below 100 or above 250
InvalidBody(body) ==
    \/ body.frontPhotoUrl \in {Undefined, "not-a-url"}
    \/ body.heightCm < 100
    \/ body.heightCm > 250

\* C27: POST /v1/avatar/jobs with a body whose frontPhotoUrl is missing or
\* not a URL, or whose heightCm is below 100 or above 250, is answered 400
\* and changes nothing: no job row, no queue message; every job row stored
\* has a height within 100..250.
C27_State ==
    /\ \A p \in posts :
          InvalidBody(p.body) => p.pc = "reply" /\ p.code = 400 /\ p.job = NoJob
    /\ \A id \in DOMAIN jobs : jobs[id].heightCm \in 100..250
    /\ \A i \in DOMAIN queue : queue[i].heightCm \in 100..250
C27_Step ==
    \A p \in posts \cup posts' :
        (InvalidBody(p.body) /\ (p \notin posts \/ p \notin posts')) =>
            /\ jobs' = jobs
            /\ queue' = queue
            /\ avatars' = avatars
C27_InvalidBodyRejected == []C27_State /\ [][C27_Step]_vars

\* C27 witness: a request with a height of 251 cm and a valid photo URL is
\* answered 400, with no job and no message
C27_Witness ==
    /\ \E p \in posts :
          /\ p.body.heightCm = 251 /\ p.body.frontPhotoUrl = "https://s3/front.jpg"
          /\ p.pc = "reply" /\ p.code = 400
    /\ jobs = <<>>
    /\ queue = <<>>

(* ------------------- claims on the relocation steps ------------------- *)
\* destination and source of a relocation step, in files f
Destination(f, step) ==
    CASE step = "install_gltfpack" -> f.bin_gltfpack
      [] step = "copy_pixie" -> f.pixie_data
      [] OTHER -> f.sam2_ckpt
Source(f, step) ==
    CASE step = "install_gltfpack" -> f.models_tools
      [] step = "copy_pixie" -> f.models_body
      [] OTHER -> f.models_refine
\* the cp of this step is executed in this step of the script
Copies(step) ==
    \E c \in boot'.copies : c.step = step /\ c \notin boot.copies
\* Every copy is conditional: it is executed only with its destination
\* absent and its source in the volume, a destination changes only by its
\* own copy, from absent to present, and a copy step never ends the
\* script, whether its cp failed or not.
ConditionalCopies ==
    \A step \in Relocations :
        /\ Copies(step) => ~Destination(fs, step) /\ Source(fs, step)
        /\ Destination(fs, step) => Destination(fs', step)
        /\ Destination(fs', step) # Destination(fs, step) =>
              Copies(step) /\ boot.pc = "starting" /\ BootStep = step
        /\ (boot.pc = "starting" /\ BootStep = step /\ boot' # boot) =>
              /\ boot'.pc = "starting"
              /\ \A other \in Relocations \ {step} :
                    Destination(fs', other) = Destination(fs, other)

Before(step) ==
    LET b == boot.before[1]
    IN IF \E c \in b.copies : c.step = step
       THEN IF [step |-> step, ok |-> TRUE] \in b.copies THEN "ok" ELSE "failed"
       ELSE IF \E k \in DOMAIN b.done : b.done[k] = step THEN "none"
       ELSE "unreached"

C29_NoOrphanJob ==
    \A id \in DOMAIN jobs :
        jobs[id].status = "queued" =>
            \/ MessagesOf(id) # {}
            \/ \E p \in posts : p.job.id = id /\ p.pc = "enqueue"

(* ------------------------ claims on the viewer ------------------------ *)
\* C30: after any interleaving of load() calls and destroy(), the scene
\* holds at most one loaded model, that model is modelRoot, and no model
\* is added to the scene once destroy() has been called.
C30_State ==
    scene.pc # "none" =>
        /\ Cardinality(scene.children) <= 1
        /\ \A m \in scene.children : m = scene.modelRoot
C30_Step ==
    scene.pc = "destroyed" => scene'.children \subseteq scene.children
C30_OneModelInScene == []C30_State /\ [][C30_Step]_vars

====
